---- MODULE Spec2Model ----
(***************************************************************************)
(* XCM monitoring: the MatchingEngine (services/matching/engine.ts) and    *)
(* the part of the Switchboard (services/monitoring/switchboard.ts) that   *)
(* feeds it and fans its notifications out.                                *)
(*                                                                         *)
(* The event loop is single threaded: an action is one run-to-completion   *)
(* step of a callback, from one suspension point (await) to the next.      *)
(***************************************************************************)
EXTENDS Integers, Sequences, FiniteSets, TLC

(* ------------------------------ bounds -------------------------------- *)

\* engine calls (observed legs) in one behaviour of Spec
MaxObs == 3
\* engine calls (observed legs) in one behaviour of SpecTimed
MaxObsTimed == 3
\* engine calls (observed legs) in one behaviour of SpecSerial
MaxObsSerial == 4
\* clock ticks in one behaviour
MaxTime == 3
\* unsubscribe calls in one behaviour
MaxUnsub == 1
\* outboundTTL of every descriptor, in clock ticks
OutboundTTL == 1
\* cadence of the expiry sweep the specification describes, in clock ticks
SweepPeriod == 1
\* unsubscribe calls in one behaviour of SpecCaps
MaxUnsubCaps == 2
\* engine calls (observed legs) in one behaviour of SpecSenders
MaxObsSenders == 2
\* observations of the legs in one behaviour of SpecDestinations
MaxObsDestinations == 2
\* observer errors and unsubscribe calls in one behaviour of SpecLegs
MaxLegErrors == 2
\* errors of the relay observer in one behaviour of SpecRelay
MaxRelayErrors == 2

(* ----------------------------- universe ------------------------------- *)

SubIds == {"s1", "s2"}
Hashes == {"h1"}
Origin == "o"
Dests == {"d1"}
Accounts == {"acctA"}
Relays == {"r0"}

VARIABLES
  subs,        \* Switchboard.#subs: id -> handler
  attached,    \* observers subscribed to a shared block stream
  outbound,    \* MatchingEngine.#outbound: key -> XcmMessageSent
  inbound,     \* MatchingEngine.#inbound: key -> XcmMessageReceived
  queue,       \* MatchingEngine.#mutex: operations waiting, in FIFO order
  holder,      \* MatchingEngine.#mutex: the operation inside runExclusive
  delPending,  \* del() calls issued and not awaited, not yet applied
  emitted,     \* history: engine emit(Notification, message) calls
  notified,    \* history: NotifierHub.notify(descriptor, msg) calls
  handled,     \* history: engine operations that left the critical section
  cleared,     \* history: the unsubscribe(id) calls that have completed
  now,         \* clock
  nobs,        \* engine calls made so far
  nunsub,      \* unsubscribe calls made so far
  stats,       \* Switchboard.#stats: the ephemeral and the persistent counter
  db,          \* SubsStore: id -> persisted descriptor
  controls,    \* the ControlQuery objects: reference -> current criteria
  timeouts,    \* Switchboard.#timeouts: recovery timers not fired yet, in order
  pending,     \* subscribe calls suspended at their await of db.insert
  thrown,      \* history: the errors the Switchboard operations have thrown
  maxEphemeral,  \* Switchboard.#maxEphemeral
  maxPersistent, \* Switchboard.#maxPersistent
  nerr,        \* observer errors so far
  registry,    \* the chains whose getRegistry() observable replays a value
  lifecycle,   \* history: "constructed", then "started", then "stopped"
  starting,    \* start(): the chains whose subscriptions are still to load
  relayThrows  \* whether the ingress calls of #monitorRelay throw

vars == <<subs, attached, outbound, inbound, queue, holder, delPending,
          emitted, notified, handled, cleared, now, nobs, nunsub,
          stats, db, controls, timeouts, pending, thrown,
          maxEphemeral, maxPersistent, nerr, registry, lifecycle, starting,
          relayThrows>>

engineVars == <<outbound, inbound, queue, holder, delPending, emitted, handled>>

capVars == <<maxEphemeral, maxPersistent>>

lifeVars == <<registry, lifecycle, starting, relayThrows>>

boardVars == <<stats, db, controls, timeouts, pending, thrown, capVars, nerr,
               lifeVars>>

(* ------------------------------ helpers ------------------------------- *)

\* a put() that keeps the value a key already has
PutIfAbsent(store, k, v) ==
  [x \in (DOMAIN store) \cup {k} |-> IF x \in DOMAIN store THEN store[x] ELSE v]

Put(store, k, v) == [x \in (DOMAIN store) \cup {k} |-> IF x = k THEN v ELSE store[x]]

Del(store, k) == [x \in (DOMAIN store) \ {k} |-> store[x]]

Has(store, k) == k \in DOMAIN store

\* a confirmation key of the sent side that leaves the destination out
OutKeyOfHash(outMsg) == <<outMsg.messageHash, "d1">>

\* `${messageHash}:${recipient}`
OutKey(outMsg) == <<outMsg.messageHash, outMsg.recipient>>

\* `${messageHash}:${chainId}`
InKey(inMsg) == <<inMsg.messageHash, inMsg.chainId>>

(* --------------------- ops/criteria.ts (ControlQuery) ------------------ *)

\* senders / events: the wildcard '*' or a finite list
Wildcard == [any |-> TRUE, of |-> {}]

Listed(S) == [any |-> FALSE, of |-> S]

\* the raw public-key form of an account
PublicKey(a) == <<"pk", a>>

\* types.ExtrinsicWithId as far as matchSenders reads it; <<>> is undefined
Signer(a) == <<[id |-> a, publicKey |-> PublicKey(a), extraSigners |-> {}]>>

sendersCriteria(senders) ==
  IF ~senders.any
  THEN [matchAny |-> FALSE, accounts |-> senders.of]
  ELSE [matchAny |-> TRUE, accounts |-> {}]

messageCriteria(recipients) == [recipient |-> recipients]

matchSenders(query, xt) ==
  IF xt = <<>>
  THEN FALSE
  ELSE \/ query.matchAny
       \/ xt[1].id \in query.accounts
       \/ xt[1].publicKey \in query.accounts
       \/ \E e \in xt[1].extraSigners :
            e.id \in query.accounts \/ e.publicKey \in query.accounts

matchMessage(query, xcm) == xcm.recipient \in query.recipient

(* ------------------------------ messages ------------------------------ *)

\* mapXcmSent(id, registry, origin): the sent leg handed to the engine
XcmMessageSent(id, h, d, sender, at, oid) ==
  [subscriptionId |-> id, messageHash |-> h, chainId |-> Origin,
   recipient |-> d, sender |-> sender, at |-> at, oid |-> oid]

\* new XcmInbound(id, chainId, msg): the received leg handed to the engine
XcmMessageReceived(id, chainId, h, at, oid) ==
  [subscriptionId |-> id, messageHash |-> h, chainId |-> chainId,
   at |-> at, oid |-> oid]

\* new XcmMessageNotify(outMsg, inMsg): the matched ('received') notification
XcmMessageNotify(outMsg, inMsg) ==
  [type |-> "Received", subscriptionId |-> outMsg.subscriptionId,
   messageHash |-> outMsg.messageHash, sender |-> outMsg.sender,
   outMsg |-> outMsg, inMsg |-> inMsg]

(* ----------------------------- Switchboard ---------------------------- *)

\* the caps of a Switchboard constructed without options
DefaultMax == 10000

\* the options of a Switchboard constructed with small caps
subscriptionMaxEphemeral == 2

subscriptionMaxPersistent == 1

Descriptor(id, senders, destinations, events, ephemeral) ==
  [id |-> id, origin |-> Origin, senders |-> senders,
   destinations |-> destinations, events |-> events,
   ephemeral |-> ephemeral, outboundTTL |-> OutboundTTL]

\* ingress.isRelay(chainId)
isRelay(chainId) == chainId \in Relays

\* ingress.getRelayIds()[0]
RelayId == CHOOSE r \in Relays : TRUE

\* an rx subscription of one observer leg to a shared block stream; ctl is the
\* reference of the ControlQuery objects its pipeline was built with, n tells
\* the inbound observers of one subscription and chain apart
Observer(id, dir, chainId, proto, ctl) ==
  [id |-> id, dir |-> dir, chainId |-> chainId, proto |-> proto, ctl |-> ctl,
   n |-> 0]

\* the first number no inbound observer of id and chainId has, among the
\* observers att and those the handlers sbs hold
NewInbound(att, sbs, id, chainId) ==
  LET used == {o.n : o \in {x \in att \cup UNION {sbs[i].destinationSubs : i \in DOMAIN sbs} :
                               x.id = id /\ x.dir = "in" /\ x.chainId = chainId}}
  IN  CHOOSE k \in 0..Cardinality(used) :
        k \notin used /\ \A m \in 0..(k - 1) : m \in used

\* the ControlQuery references held by the handlers sbs or the observers att
RefsOf(att, sbs) ==
  {o.ctl : o \in att}
    \cup {sbs[i].sendersControl : i \in DOMAIN sbs}
    \cup {sbs[i].messageControl : i \in DOMAIN sbs}
    \cup UNION {{o.ctl : o \in sbs[i].relaySub} : i \in DOMAIN sbs}

Referenced == RefsOf(attached, subs)

\* the ControlQuery objects left once only att and sbs hold references
Collect(att, sbs) ==
  [r \in (DOMAIN controls) \cap RefsOf(att, sbs) |-> controls[r]]

\* ControlQuery.from(...): a new object, named by the first reference of the
\* subscription that is not in the set used
NewRef(id, used) ==
  <<id, CHOOSE n \in 0..Cardinality(used) :
          /\ <<id, n>> \notin used
          /\ \A m \in 0..(n - 1) : <<id, m>> \in used>>

\* #monitorOrigins finds an origin observer of the chain in the handler
DuplicatedOrigin(qs) ==
  qs.id \in DOMAIN subs /\ \E s \in subs[qs.id].originSubs : s.chainId = qs.origin

\* #monitorOrigins: the two outbound observer legs of the origin chain
monitorOrigins(qs, ctl) ==
  IF isRelay(qs.origin)
  THEN {Observer(qs.id, "out", qs.origin, "dmp", ctl),
        Observer(qs.id, "out", qs.origin, "dmp-event", ctl)}
  ELSE {Observer(qs.id, "out", qs.origin, "hrmp", ctl),
        Observer(qs.id, "out", qs.origin, "ump", ctl)}

\* the inbound protocol of a destination
InboundProtocol(origin, dest) ==
  IF isRelay(dest) THEN "ump" ELSE IF isRelay(origin) THEN "dmp" ELSE "hrmp"

\* #monitorDestinations: one inbound observer per destination not yet observed
monitorDestinations(qs) ==
  {[Observer(qs.id, "in", d, InboundProtocol(qs.origin, d), <<>>)
      EXCEPT !.n = NewInbound(attached, subs, qs.id, d)] : d \in
     {c \in qs.destinations :
        ~(qs.id \in DOMAIN subs /\ \E s \in subs[qs.id].destinationSubs : s.chainId = c)}}

\* #shouldMonitorRelay
shouldMonitorRelay(qs) ==
  /\ qs.events.any \/ "Relayed" \in qs.events.of
  /\ ~isRelay(qs.origin)
  /\ \E d \in qs.destinations : ~isRelay(d)

\* #monitorRelay: the observer of the relay chain, with a control of its own
monitorRelay(qs, ctl) == Observer(qs.id, "relay", RelayId, "relay", ctl)

\* the criteria a pair of controls is created with
ControlsOf(qs) ==
  [senders |-> sendersCriteria(qs.senders),
   message |-> messageCriteria(qs.destinations)]

\* the handlers, observers, controls and counters of the Switchboard
Board == [subs |-> subs, attached |-> attached, controls |-> controls,
          stats |-> stats]

\* #monitorOrigins(qs) throws: the handler of b holds an origin observer of
\* the chain
Duplicated(b, qs) ==
  qs.id \in DOMAIN b.subs /\ \E s \in b.subs[qs.id].originSubs : s.chainId = qs.origin

\* the board b after #monitor(qs) has returned. For the origin observers:
\* when getRegistry(origin) holds a value it replays it inside subscribe();
\* the switchMap projection then calls #emitOutbound, which reads #subs[id]:
\* with no handler set it throws, the observer gets the error and is closed
Monitored(b, qs) ==
  LET used == RefsOf(b.attached, b.subs)
      ctl == NewRef(qs.id, used)
      rctl == NewRef(qs.id, used \cup {ctl})
      origins == IF qs.origin \in registry /\ qs.id \notin DOMAIN b.subs
                 THEN {}
                 ELSE monitorOrigins(qs, ctl)
      destinations ==
        {[Observer(qs.id, "in", d, InboundProtocol(qs.origin, d), <<>>)
            EXCEPT !.n = NewInbound(b.attached, b.subs, qs.id, d)] : d \in
           {c \in qs.destinations :
              ~(qs.id \in DOMAIN b.subs
                  /\ \E s \in b.subs[qs.id].destinationSubs : s.chainId = c)}}
      relaySub == IF shouldMonitorRelay(qs) /\ ~relayThrows
                  THEN {monitorRelay(qs, rctl)}
                  ELSE {}
  IN  [subs |-> Put(b.subs, qs.id,
                   [descriptor |-> qs,
                    sendersControl |-> ctl,
                    messageControl |-> ctl,
                    originSubs |-> monitorOrigins(qs, ctl),
                    destinationSubs |-> destinations,
                    relaySub |-> relaySub]),
       attached |-> b.attached \cup origins \cup destinations \cup relaySub,
       controls |-> IF relaySub = {}
                    THEN Put(b.controls, ctl, ControlsOf(qs))
                    ELSE Put(Put(b.controls, ctl, ControlsOf(qs)), rctl, ControlsOf(qs)),
       stats |-> IF qs.ephemeral
                 THEN [b.stats EXCEPT !.ephemeral = @ + 1]
                 ELSE [b.stats EXCEPT !.persistent = @ + 1]]

\* #monitor: registers the handler of qs with its observer legs
monitor(qs) ==
  /\ ~DuplicatedOrigin(qs)
  /\ subs' = Monitored(Board, qs).subs
  /\ attached' = Monitored(Board, qs).attached
  /\ controls' = Monitored(Board, qs).controls
  /\ stats' = Monitored(Board, qs).stats

\* an error a Switchboard operation throws to its caller
Throw(op, code) ==
  thrown' = thrown \cup {[op |-> op, code |-> code]}

\* #monitor(qs), or the error #monitorOrigins throws on a duplicated origin
monitorOrThrow(qs) ==
  IF DuplicatedOrigin(qs)
  THEN /\ Throw("subscribe", "Fatal")
       /\ UNCHANGED <<subs, attached, controls, stats>>
  ELSE /\ monitor(qs)
       /\ UNCHANGED thrown

\* the test subscribe(qs) makes before anything else
TooManySubscribers ==
  stats.ephemeral >= maxEphemeral \/ stats.persistent >= maxPersistent

\* subscribe(qs) that tests only the counter of the kind of qs
subscribeOwnKind(qs) ==
  /\ IF (qs.ephemeral /\ stats.ephemeral >= maxEphemeral)
          \/ (~qs.ephemeral /\ stats.persistent >= maxPersistent)
     THEN /\ Throw("subscribe", "TOO_MANY_SUBSCRIBERS")
          /\ UNCHANGED <<subs, attached, controls, stats, db, pending>>
     ELSE IF qs.ephemeral
          THEN /\ monitorOrThrow(qs)
               /\ UNCHANGED <<db, pending>>
          ELSE /\ db' = Put(db, qs.id, qs)
               /\ pending' = pending \cup {qs}
               /\ UNCHANGED <<subs, attached, controls, stats, thrown>>
  /\ UNCHANGED <<engineVars, notified, cleared, now, nobs, nunsub, timeouts, capVars, nerr, lifeVars>>

\* subscribe(qs) up to its return or its await of db.insert(qs)
subscribe(qs) ==
  /\ IF TooManySubscribers
     THEN /\ Throw("subscribe", "TOO_MANY_SUBSCRIBERS")
          /\ UNCHANGED <<subs, attached, controls, stats, db, pending>>
     ELSE IF qs.ephemeral
          THEN /\ monitorOrThrow(qs)
               /\ UNCHANGED <<db, pending>>
          ELSE /\ db' = Put(db, qs.id, qs)
               /\ pending' = pending \cup {qs}
               /\ UNCHANGED <<subs, attached, controls, stats, thrown>>
  /\ UNCHANGED <<engineVars, notified, cleared, now, nobs, nunsub, timeouts, capVars, nerr, lifeVars>>

\* subscribe(qs) of a persistent descriptor, after db.insert(qs) has resolved
subscribeResume(qs) ==
  /\ qs \in pending
  /\ pending' = pending \ {qs}
  /\ monitorOrThrow(qs)
  /\ UNCHANGED <<engineVars, notified, cleared, now, nobs, nunsub, db, timeouts,
                 capVars, nerr, lifeVars>>

\* updateSubscription(sub): replaces the descriptor of a known subscription
updateSubscription(sub) ==
  /\ IF sub.id \in DOMAIN subs
     THEN subs' = [subs EXCEPT ![sub.id].descriptor = sub]
     ELSE UNCHANGED subs
  /\ UNCHANGED <<attached, engineVars, notified, cleared, now, nobs, nunsub,
                 boardVars>>

\* updateSenders(id): sendersControl.change(sendersCriteria(senders))
updateSenders(id) ==
  /\ IF id \notin DOMAIN subs
     THEN /\ Throw("updateSenders", "TypeError")
          /\ UNCHANGED controls
     ELSE /\ controls' = [controls EXCEPT ![subs[id].sendersControl].senders =
                            sendersCriteria(subs[id].descriptor.senders)]
          /\ UNCHANGED thrown
  /\ UNCHANGED <<subs, attached, engineVars, notified, cleared, now, nobs, nunsub,
                 stats, db, timeouts, pending, capVars, nerr, lifeVars>>

\* #updateDestinationSubscriptions(id): the destination observers to add
\* and the ones to unsubscribe
AddedDestinations(id) == monitorDestinations(subs[id].descriptor)

RemovedDestinations(id) ==
  {s \in subs[id].destinationSubs \cup AddedDestinations(id) :
     s.chainId \notin subs[id].descriptor.destinations}

\* updateDestinations(id) that leaves the message control as it is
updateDestinationsObserversOnly(id) ==
  /\ IF id \notin DOMAIN subs
     THEN /\ Throw("updateDestinations", "TypeError")
          /\ UNCHANGED <<subs, attached, controls>>
     ELSE /\ attached' = (attached \cup AddedDestinations(id)) \ RemovedDestinations(id)
          /\ subs' = [subs EXCEPT ![id].destinationSubs =
                        (@ \cup AddedDestinations(id)) \ RemovedDestinations(id)]
          /\ UNCHANGED <<thrown, controls>>
  /\ UNCHANGED <<engineVars, notified, cleared, now, nobs, nunsub,
                 stats, db, timeouts, pending, capVars, nerr, lifeVars>>

\* updateDestinations(id): messageControl.change(messageCriteria(destinations))
\* and the update of the destination observers
updateDestinations(id) ==
  /\ IF id \notin DOMAIN subs
     THEN /\ Throw("updateDestinations", "TypeError")
          /\ UNCHANGED <<subs, attached, controls>>
     ELSE /\ controls' = [controls EXCEPT ![subs[id].messageControl].message =
                            messageCriteria(subs[id].descriptor.destinations)]
          /\ attached' = (attached \cup AddedDestinations(id)) \ RemovedDestinations(id)
          /\ subs' = [subs EXCEPT ![id].destinationSubs =
                        (@ \cup AddedDestinations(id)) \ RemovedDestinations(id)]
          /\ UNCHANGED thrown
  /\ UNCHANGED <<engineVars, notified, cleared, now, nobs, nunsub,
                 stats, db, timeouts, pending, capVars, nerr, lifeVars>>

\* the observers unsubscribe(id) and stop() detach: those the handler tracks
Tracked(id) ==
  subs[id].originSubs \cup subs[id].destinationSubs \cup subs[id].relaySub

\* the ids in the order the store iterates them
IdOrder == <<"s1", "s2">>

\* db.getByNetworkId(chainId): the stored descriptors of the origin chainId
getByNetworkId(chainId) ==
  LET ids == SelectSeq(IdOrder, LAMBDA id : id \in DOMAIN db /\ db[id].origin = chainId)
  IN  [i \in DOMAIN ids |-> db[ids[i]]]

\* the loop of #startNetworkMonitors over the subscriptions of one chain:
\* #monitor(sub) for each, an error is logged and the loop goes on
RECURSIVE MonitorEach(_, _)
MonitorEach(b, qss) ==
  IF qss = <<>>
  THEN b
  ELSE MonitorEach(IF Duplicated(b, Head(qss)) THEN b ELSE Monitored(b, Head(qss)),
                   Tail(qss))

\* the orders in which ingress.getChainIds() lists the origin chains
ChainOrders == {<<"o", "r0">>, <<"r0", "o">>}

\* start(), up to the first await of db.getByNetworkId
start ==
  /\ lifecycle = "constructed"
  /\ lifecycle' = "started"
  /\ \E order \in ChainOrders : starting' = order
  /\ UNCHANGED <<subs, attached, engineVars, notified, cleared, now, nobs, nunsub,
                 stats, db, controls, timeouts, pending, thrown, capVars, nerr,
                 registry, relayThrows>>

\* #startNetworkMonitors after db.getByNetworkId(chainId) has resolved, up to
\* the next await or the return
startLoad ==
  /\ starting # <<>>
  /\ starting' = Tail(starting)
  /\ subs' = MonitorEach(Board, getByNetworkId(Head(starting))).subs
  /\ attached' = MonitorEach(Board, getByNetworkId(Head(starting))).attached
  /\ controls' = MonitorEach(Board, getByNetworkId(Head(starting))).controls
  /\ stats' = MonitorEach(Board, getByNetworkId(Head(starting))).stats
  /\ UNCHANGED <<engineVars, notified, cleared, now, nobs, nunsub,
                 db, timeouts, pending, thrown, capVars, nerr, registry, lifecycle,
                 relayThrows>>

\* stop(): unsubscribes the observers the handlers hold and unrefs the timers
stop ==
  /\ lifecycle # "stopped"
  /\ lifecycle' = "stopped"
  /\ attached' = attached \ UNION {Tracked(id) : id \in DOMAIN subs}
  /\ UNCHANGED <<subs, engineVars, notified, cleared, now, nobs, nunsub,
                 stats, db, controls, timeouts, pending, thrown, capVars, nerr,
                 registry, starting, relayThrows>>

\* an updateEvents that lets the error of the relay set-up out
updateEventsRethrows(id) ==
  /\ IF relayThrows /\ id \in DOMAIN subs
        /\ shouldMonitorRelay(subs[id].descriptor) /\ subs[id].relaySub = {}
     THEN Throw("updateEvents", "Error")
     ELSE UNCHANGED thrown
  /\ UNCHANGED <<subs, attached, controls>>
  /\ UNCHANGED <<engineVars, notified, cleared, now, nobs, nunsub,
                 stats, db, timeouts, pending, capVars, nerr, lifeVars>>

\* updateEvents(id): attaches the relay observer the descriptor asks for and
\* the handler does not hold, or detaches the one it holds and the descriptor
\* no longer asks for
updateEvents(id) ==
  /\ IF id \notin DOMAIN subs
     THEN /\ Throw("updateEvents", "TypeError")
          /\ UNCHANGED <<subs, attached, controls>>
     ELSE IF shouldMonitorRelay(subs[id].descriptor) /\ subs[id].relaySub = {}
     THEN IF relayThrows
          THEN UNCHANGED <<subs, attached, controls, thrown>>
          ELSE /\ subs' = [subs EXCEPT ![id].relaySub =
                             {monitorRelay(subs[id].descriptor, NewRef(id, Referenced))}]
               /\ attached' = attached \cup
                                {monitorRelay(subs[id].descriptor, NewRef(id, Referenced))}
               /\ controls' = Put(controls, NewRef(id, Referenced),
                                  ControlsOf(subs[id].descriptor))
               /\ UNCHANGED thrown
     ELSE IF ~shouldMonitorRelay(subs[id].descriptor) /\ subs[id].relaySub # {}
     THEN /\ attached' = attached \ subs[id].relaySub
          /\ subs' = [subs EXCEPT ![id].relaySub = {}]
          /\ controls' = Collect(attached \ subs[id].relaySub,
                                 [subs EXCEPT ![id].relaySub = {}])
          /\ UNCHANGED thrown
     ELSE UNCHANGED <<subs, attached, controls, thrown>>
  /\ UNCHANGED <<engineVars, notified, cleared, now, nobs, nunsub,
                 stats, db, timeouts, pending, capVars, nerr, lifeVars>>

\* the error callback of a leg that ends the subscription
LegErrorUnsubscribes(o) ==
  /\ o \in attached
  /\ attached' = attached \ {o}
  /\ nerr' = nerr + 1
  /\ subs' = Del(subs, o.id)
  /\ UNCHANGED <<engineVars, notified, cleared, now, nobs, nunsub, timeouts,
                 stats, db, controls, pending, thrown, capVars, lifeVars>>

\* the error callback of an observer leg, after rx has closed the observer:
\* a leg the handler tracks is dropped from it and a recovery timer is set
LegError(o) ==
  /\ o \in attached
  /\ attached' = attached \ {o}
  /\ nerr' = nerr + 1
  /\ IF o.id \notin DOMAIN subs
     THEN UNCHANGED <<subs, timeouts>>
     ELSE IF o.dir = "in"
     THEN IF \E s \in subs[o.id].destinationSubs : s.chainId = o.chainId
          THEN /\ subs' = [subs EXCEPT ![o.id].destinationSubs =
                             {s \in @ : s.chainId # o.chainId}]
               /\ timeouts' = Append(timeouts,
                    [kind |-> "in", id |-> o.id, chainId |-> o.chainId])
          ELSE UNCHANGED <<subs, timeouts>>
     ELSE IF o.dir = "out"
     THEN IF \E s \in subs[o.id].originSubs : s.chainId = o.chainId
          THEN /\ subs' = [subs EXCEPT ![o.id].originSubs = {}]
               /\ timeouts' = Append(timeouts,
                    [kind |-> "out", id |-> o.id, chainId |-> o.chainId,
                     descriptor |-> subs[o.id].descriptor])
          ELSE UNCHANGED <<subs, timeouts>>
     ELSE /\ timeouts' = Append(timeouts,
               [kind |-> "relay", id |-> o.id, chainId |-> o.chainId])
          /\ UNCHANGED subs
  /\ UNCHANGED <<engineVars, notified, cleared, now, nobs, nunsub,
                 stats, db, controls, pending, thrown, capVars, lifeVars>>

\* the recovery of an origin leg: #monitorOrigins(descriptor) with the
\* descriptor the error callback read, and the new controls
RecoverOrigin(t) ==
  IF t.id \notin DOMAIN subs
  THEN UNCHANGED <<subs, attached, controls, thrown>>
  ELSE IF DuplicatedOrigin(t.descriptor)
  THEN /\ Throw("timer", "Fatal")
       /\ UNCHANGED <<subs, attached, controls>>
  ELSE /\ subs' = [subs EXCEPT
                     ![t.id].sendersControl = NewRef(t.id, Referenced),
                     ![t.id].messageControl = NewRef(t.id, Referenced),
                     ![t.id].originSubs =
                        monitorOrigins(t.descriptor, NewRef(t.id, Referenced))]
       /\ attached' = attached \cup
                        monitorOrigins(t.descriptor, NewRef(t.id, Referenced))
       /\ controls' = Put(controls, NewRef(t.id, Referenced), ControlsOf(t.descriptor))
       /\ UNCHANGED thrown

\* the recovery of a destination leg: #updateDestinationSubscriptions(id)
RecoverDestination(t) ==
  IF t.id \notin DOMAIN subs
  THEN /\ Throw("timer", "TypeError")
       /\ UNCHANGED <<subs, attached, controls>>
  ELSE /\ attached' = (attached \cup AddedDestinations(t.id)) \ RemovedDestinations(t.id)
       /\ subs' = [subs EXCEPT ![t.id].destinationSubs =
                     (@ \cup AddedDestinations(t.id)) \ RemovedDestinations(t.id)]
       /\ UNCHANGED <<controls, thrown>>

\* the recovery of the relay leg: #monitorRelay(#subs[id].descriptor)
RecoverRelay(t) ==
  IF t.id \notin DOMAIN subs
  THEN /\ Throw("timer", "TypeError")
       /\ UNCHANGED <<subs, attached, controls>>
  ELSE IF relayThrows
  THEN /\ Throw("timer", "Error")
       /\ UNCHANGED <<subs, attached, controls>>
  ELSE /\ subs' = [subs EXCEPT ![t.id].relaySub =
                     {monitorRelay(subs[t.id].descriptor, NewRef(t.id, Referenced))}]
       /\ attached' = attached \cup
                        {monitorRelay(subs[t.id].descriptor, NewRef(t.id, Referenced))}
       /\ controls' = Put(controls, NewRef(t.id, Referenced),
                          ControlsOf(subs[t.id].descriptor))
       /\ UNCHANGED thrown

\* a recovery timer that re-attaches origin legs only
TimerFiresOriginOnly ==
  /\ timeouts # <<>>
  /\ timeouts' = Tail(timeouts)
  /\ IF Head(timeouts).kind = "out"
     THEN RecoverOrigin(Head(timeouts))
     ELSE UNCHANGED <<subs, attached, controls, thrown>>
  /\ UNCHANGED <<engineVars, notified, cleared, now, nobs, nunsub,
                 stats, db, pending, capVars, nerr, lifeVars>>

\* the callback of the recovery timer set first, SUB_ERROR_RETRY_MS after
\* the error
TimerFires ==
  /\ timeouts # <<>>
  /\ timeouts' = Tail(timeouts)
  /\ IF Head(timeouts).kind = "out"
     THEN RecoverOrigin(Head(timeouts))
     ELSE IF Head(timeouts).kind = "in"
     THEN RecoverDestination(Head(timeouts))
     ELSE RecoverRelay(Head(timeouts))
  /\ UNCHANGED <<engineVars, notified, cleared, now, nobs, nunsub,
                 stats, db, pending, capVars, nerr, lifeVars>>

\* the observers subscribed to getRegistry(chainId)
RegistrySubscribers(chainId) ==
  {o \in attached : \/ o.dir = "out" /\ o.chainId = chainId
                    \/ o.dir = "relay" /\ chainId = RelayId}

\* the promise behind getRegistry(chainId) resolves: shareReplay delivers the
\* registry to its subscribers and keeps it for the later ones
RegistryLoads(chainId) ==
  /\ chainId \notin registry
  /\ RegistrySubscribers(chainId) # {}
  /\ registry' = registry \cup {chainId}
  /\ UNCHANGED <<subs, attached, engineVars, notified, cleared, now, nobs, nunsub,
                 stats, db, controls, timeouts, pending, thrown, capVars, nerr,
                 lifecycle, starting, relayThrows>>

\* #onXcmWaypointReached(msg) that does not test the sender
onXcmWaypointReachedAnySender(msg) ==
  IF msg.subscriptionId \in DOMAIN subs
  THEN IF \/ subs[msg.subscriptionId].descriptor.events.any
          \/ msg.type \in subs[msg.subscriptionId].descriptor.events.of
       THEN <<msg>>
       ELSE <<>>
  ELSE <<>>

\* #onXcmWaypointReached(msg) without the lookup of the subscription
onXcmWaypointReachedNoLookup(msg) == <<msg>>

\* #onXcmWaypointReached(msg): the notifier calls it makes
onXcmWaypointReached(msg) ==
  IF msg.subscriptionId \in DOMAIN subs
  THEN LET h == subs[msg.subscriptionId]
       IN  IF /\ (h.descriptor.events.any \/ msg.type \in h.descriptor.events.of)
              /\ matchSenders(controls[h.sendersControl].senders, msg.sender)
           THEN <<msg>>
           ELSE <<>>
  ELSE <<>>

(* --------------------------- MatchingEngine --------------------------- *)

\* a call of an engine operation: it queues on the mutex (runExclusive)
Call(op, msg) ==
  /\ queue' = Append(queue, [op |-> op, msg |-> msg])
  /\ UNCHANGED <<outbound, inbound, holder, delPending, emitted, handled>>

\* the origin observers whose extractor yields a message sent to chain d
Extracts(o, d) ==
  \/ o.proto \in {"dmp", "dmp-event"}
  \/ o.proto = "ump" /\ isRelay(d)
  \/ o.proto = "hrmp" /\ ~isRelay(d)

\* #emitOutbound: an origin observer maps a sent message, filters it by the
\* message control it was built with and hands it to the engine
emitOutbound(id, h, d, sender) ==
  /\ \E o \in attached :
       /\ o.id = id /\ o.dir = "out" /\ Extracts(o, d)
       /\ o.chainId \in registry
       /\ IF matchMessage(controls[o.ctl].message,
                          XcmMessageSent(id, h, d, sender, now, nobs + 1))
          THEN Call("out", XcmMessageSent(id, h, d, sender, now, nobs + 1))
          ELSE UNCHANGED engineVars
  /\ nobs' = nobs + 1
  /\ UNCHANGED <<subs, attached, notified, cleared, now, nunsub, boardVars>>

\* #emitInbound: a destination observer hands a received message to the engine
emitInbound(id, chainId, h) ==
  /\ \E o \in attached : o.id = id /\ o.dir = "in" /\ o.chainId = chainId
  /\ Call("in", XcmMessageReceived(id, chainId, h, now, nobs + 1))
  /\ nobs' = nobs + 1
  /\ UNCHANGED <<subs, attached, notified, cleared, now, nunsub, boardVars>>

\* the engine operations of subscription id that are queued or running
InFlight(id) ==
  {queue[i] : i \in {j \in DOMAIN queue : queue[j].msg.subscriptionId = id}}
    \cup {holder[i] : i \in {j \in DOMAIN holder : holder[j].msg.subscriptionId = id}}

\* the call of clearPendingStates(id) by unsubscribe(id); ephemeral is what
\* the rest of unsubscribe(id) read from the descriptor before the call
ClearCall(id) ==
  Call("clear", [subscriptionId |-> id, inflight |-> InFlight(id) # {},
                 ephemeral |-> subs[id].descriptor.ephemeral])

\* unsubscribe(id) that leaves the destination observers attached
unsubscribeKeepingDestinations(id) ==
  /\ nunsub' = nunsub + 1
  /\ IF id \notin DOMAIN subs
     THEN UNCHANGED <<subs, attached, engineVars, controls>>
     ELSE /\ attached' = attached \ (subs[id].originSubs \cup subs[id].relaySub)
          /\ subs' = Del(subs, id)
          /\ controls' = Collect(attached \ Tracked(id), Del(subs, id))
          /\ ClearCall(id)
  /\ UNCHANGED <<notified, cleared, now, nobs, stats, db, timeouts, pending, thrown,
                 capVars, nerr, lifeVars>>

\* unsubscribe(id) that takes the subscription for one of a known kind
unsubscribeUnchecked(id) ==
  /\ nunsub' = nunsub + 1
  /\ IF id \notin DOMAIN subs
     THEN /\ stats' = [stats EXCEPT !.ephemeral = @ - 1]
          /\ UNCHANGED <<subs, attached, engineVars, controls>>
     ELSE /\ attached' = attached \ Tracked(id)
          /\ subs' = Del(subs, id)
          /\ controls' = Collect(attached \ Tracked(id), Del(subs, id))
          /\ ClearCall(id)
          /\ UNCHANGED stats
  /\ UNCHANGED <<notified, cleared, now, nobs, db, timeouts, pending, thrown,
                 capVars, nerr, lifeVars>>

\* unsubscribe(id) up to its return or its await of clearPendingStates(id)
unsubscribe(id) ==
  /\ nunsub' = nunsub + 1
  /\ IF id \notin DOMAIN subs
     THEN UNCHANGED <<subs, attached, engineVars, controls>>
     ELSE /\ attached' = attached \ Tracked(id)
          /\ subs' = Del(subs, id)
          /\ controls' = Collect(attached \ Tracked(id), Del(subs, id))
          /\ ClearCall(id)
  /\ UNCHANGED <<notified, cleared, now, nobs, stats, db, timeouts, pending, thrown,
                 capVars, nerr, lifeVars>>

\* the key an operation works on
Key(t) == IF t.op = "out" THEN OutKey(t.msg) ELSE InKey(t.msg)

\* the counterpart read inside the critical section: <<>> is NotFound
Counterpart(t) ==
  IF t.op = "out"
  THEN IF Has(inbound, Key(t)) THEN <<inbound[Key(t)]>> ELSE <<>>
  ELSE IF Has(outbound, Key(t)) THEN <<outbound[Key(t)]>> ELSE <<>>

\* mutex.runExclusive: the head of the queue enters and its get() is served
Enter ==
  /\ holder = <<>>
  /\ queue # <<>>
  /\ holder' = <<[op |-> Head(queue).op, msg |-> Head(queue).msg,
                  got |-> IF Head(queue).op = "clear" THEN <<>>
                          ELSE Counterpart(Head(queue))]>>
  /\ queue' = Tail(queue)
  /\ UNCHANGED <<subs, attached, outbound, inbound, delPending, emitted,
                 notified, handled, cleared, now, nobs, nunsub, boardVars>>

\* #notify(outMsg, inMsg): emit(Notification, message) and its listener
notify(outMsg, inMsg) ==
  /\ emitted' = Append(emitted, XcmMessageNotify(outMsg, inMsg))
  /\ notified' = notified \o onXcmWaypointReached(XcmMessageNotify(outMsg, inMsg))

\* onOutboundMessage, after the inbound get: match or store, then release
onOutboundMessage ==
  /\ holder # <<>>
  /\ holder[1].op = "out"
  /\ LET t == holder[1]
         ck == OutKey(t.msg)
     IN  IF t.got # <<>>
         THEN /\ delPending' = delPending \cup {<<"in", ck>>}
              /\ notify(t.msg, t.got[1])
              /\ handled' = handled \cup {[op |-> "out", msg |-> t.msg, matched |-> TRUE, threw |-> FALSE]}
              /\ UNCHANGED <<outbound, inbound>>
         ELSE /\ outbound' = Put(outbound, ck, t.msg)
              /\ handled' = handled \cup {[op |-> "out", msg |-> t.msg, matched |-> FALSE, threw |-> FALSE]}
              /\ UNCHANGED <<inbound, delPending, emitted, notified>>
  /\ holder' = <<>>
  /\ UNCHANGED <<subs, attached, queue, cleared, now, nobs, nunsub,
                 boardVars>>

\* onInboundMessage that does not delete the matched outbound entry
onInboundMessageNoDel ==
  /\ holder # <<>>
  /\ holder[1].op = "in"
  /\ LET t == holder[1]
         ck == InKey(t.msg)
     IN  IF t.got # <<>>
         THEN /\ notify(t.got[1], t.msg)
              /\ handled' = handled \cup {[op |-> "in", msg |-> t.msg, matched |-> TRUE, threw |-> FALSE]}
              /\ UNCHANGED <<outbound, inbound, delPending>>
         ELSE /\ inbound' = Put(inbound, ck, t.msg)
              /\ handled' = handled \cup {[op |-> "in", msg |-> t.msg, matched |-> FALSE, threw |-> FALSE]}
              /\ UNCHANGED <<outbound, delPending, emitted, notified>>
  /\ holder' = <<>>
  /\ UNCHANGED <<subs, attached, queue, cleared, now, nobs, nunsub,
                 boardVars>>

\* onInboundMessage, after the outbound get: match or store, then release
onInboundMessage ==
  /\ holder # <<>>
  /\ holder[1].op = "in"
  /\ LET t == holder[1]
         ck == InKey(t.msg)
     IN  IF t.got # <<>>
         THEN /\ delPending' = delPending \cup {<<"out", ck>>}
              /\ notify(t.got[1], t.msg)
              /\ handled' = handled \cup {[op |-> "in", msg |-> t.msg, matched |-> TRUE, threw |-> FALSE]}
              /\ UNCHANGED <<outbound, inbound>>
         ELSE /\ inbound' = Put(inbound, ck, t.msg)
              /\ handled' = handled \cup {[op |-> "in", msg |-> t.msg, matched |-> FALSE, threw |-> FALSE]}
              /\ UNCHANGED <<outbound, delPending, emitted, notified>>
  /\ holder' = <<>>
  /\ UNCHANGED <<subs, attached, queue, cleared, now, nobs, nunsub,
                 boardVars>>

\* #notify(outMsg, inMsg) whose listener throws: emit() was called, the
\* listener did not reach the notifier, the catch of #notify logs the error
notifyListenerThrows(outMsg, inMsg) ==
  /\ emitted' = Append(emitted, XcmMessageNotify(outMsg, inMsg))
  /\ UNCHANGED notified

\* onOutboundMessage on a match, if the error of the listener left #notify:
\* the catch of the critical section stores the sent leg
onOutboundMessageListenerThrowsUncaught ==
  /\ holder # <<>>
  /\ holder[1].op = "out"
  /\ holder[1].got # <<>>
  /\ delPending' = delPending \cup {<<"in", OutKey(holder[1].msg)>>}
  /\ notifyListenerThrows(holder[1].msg, holder[1].got[1])
  /\ outbound' = Put(outbound, OutKey(holder[1].msg), holder[1].msg)
  /\ handled' = handled \cup
       {[op |-> "out", msg |-> holder[1].msg, matched |-> TRUE, threw |-> TRUE]}
  /\ holder' = <<>>
  /\ UNCHANGED <<subs, attached, inbound, queue, cleared, now, nobs, nunsub,
                 boardVars>>

\* onOutboundMessage on a match whose notification listener throws
onOutboundMessageListenerThrows ==
  /\ holder # <<>>
  /\ holder[1].op = "out"
  /\ holder[1].got # <<>>
  /\ delPending' = delPending \cup {<<"in", OutKey(holder[1].msg)>>}
  /\ notifyListenerThrows(holder[1].msg, holder[1].got[1])
  /\ handled' = handled \cup
       {[op |-> "out", msg |-> holder[1].msg, matched |-> TRUE, threw |-> TRUE]}
  /\ holder' = <<>>
  /\ UNCHANGED <<subs, attached, outbound, inbound, queue, cleared, now, nobs, nunsub,
                 boardVars>>

\* onInboundMessage on a match whose notification listener throws
onInboundMessageListenerThrows ==
  /\ holder # <<>>
  /\ holder[1].op = "in"
  /\ holder[1].got # <<>>
  /\ delPending' = delPending \cup {<<"out", InKey(holder[1].msg)>>}
  /\ notifyListenerThrows(holder[1].got[1], holder[1].msg)
  /\ handled' = handled \cup
       {[op |-> "in", msg |-> holder[1].msg, matched |-> TRUE, threw |-> TRUE]}
  /\ holder' = <<>>
  /\ UNCHANGED <<subs, attached, outbound, inbound, queue, cleared, now, nobs, nunsub,
                 boardVars>>

\* runExclusive acquires the mutex and the get of the counterpart rejects with
\* an error of the store: the catch of the critical section takes it for an
\* absent counterpart
EnterGetFails ==
  /\ holder = <<>>
  /\ queue # <<>>
  /\ Head(queue).op # "clear"
  /\ holder' = <<[op |-> Head(queue).op, msg |-> Head(queue).msg, got |-> <<>>]>>
  /\ queue' = Tail(queue)
  /\ UNCHANGED <<subs, attached, outbound, inbound, delPending, emitted,
                 notified, handled, cleared, now, nobs, nunsub, boardVars>>

\* a put that rejects and leaves the callback without a release of the mutex
PutFailsHoldingMutex ==
  /\ holder # <<>>
  /\ holder[1].op # "clear"
  /\ holder[1].got = <<>>
  /\ handled' = handled \cup
       {[op |-> holder[1].op, msg |-> holder[1].msg, matched |-> FALSE, threw |-> TRUE]}
  /\ holder' = <<[holder[1] EXCEPT !.op = "rejected"]>>
  /\ UNCHANGED <<subs, attached, outbound, inbound, queue, delPending, emitted,
                 notified, cleared, now, nobs, nunsub, boardVars>>

\* the put in the catch of the critical section rejects: the error leaves the
\* callback, runExclusive releases the mutex and rejects
PutFails ==
  /\ holder # <<>>
  /\ holder[1].op # "clear"
  /\ holder[1].got = <<>>
  /\ handled' = handled \cup
       {[op |-> holder[1].op, msg |-> holder[1].msg, matched |-> FALSE, threw |-> TRUE]}
  /\ holder' = <<>>
  /\ UNCHANGED <<subs, attached, outbound, inbound, queue, delPending, emitted,
                 notified, cleared, now, nobs, nunsub, boardVars>>

\* a del() that was issued without await takes effect in the store
DelApply ==
  \E d \in delPending :
    /\ delPending' = delPending \ {d}
    /\ IF d[1] = "out"
       THEN outbound' = Del(outbound, d[2]) /\ UNCHANGED inbound
       ELSE inbound' = Del(inbound, d[2]) /\ UNCHANGED outbound
    /\ UNCHANGED <<subs, attached, queue, holder, emitted, notified, handled,
                   cleared, now, nobs, nunsub, boardVars>>

\* the entries of a namespace that are not of subscription id
Without(store, id) ==
  [k \in {x \in DOMAIN store : store[x].subscriptionId # id} |-> store[k]]

\* unsubscribe(id) after its await of clearPendingStates(id): the counter of
\* the kind it read is decremented and a persistent record is removed
unsubscribeReturn(c) ==
  /\ stats' = IF c.ephemeral
              THEN [stats EXCEPT !.ephemeral = @ - 1]
              ELSE [stats EXCEPT !.persistent = @ - 1]
  /\ db' = IF c.ephemeral THEN db ELSE Del(db, c.subscriptionId)

\* clearPendingStates(id), and the return of unsubscribe(id) that awaits it
clearPendingStates ==
  /\ holder # <<>>
  /\ holder[1].op = "clear"
  /\ outbound' = Without(outbound, holder[1].msg.subscriptionId)
  /\ inbound' = Without(inbound, holder[1].msg.subscriptionId)
  /\ cleared' = cleared \cup {holder[1].msg}
  /\ holder' = <<>>
  /\ unsubscribeReturn(holder[1].msg)
  /\ UNCHANGED <<subs, attached, queue, delPending, emitted, notified, handled,
                 now, nobs, nunsub, controls, timeouts, pending, thrown, capVars, nerr, lifeVars>>

\* time passes
Tick ==
  /\ now < MaxTime
  /\ now' = now + 1
  /\ UNCHANGED <<subs, attached, engineVars, notified, cleared, nobs, nunsub,
                 boardVars>>

(* ---------------------------- specification --------------------------- *)

Empty == [x \in {} |-> 0]

\* the state after construction over a store of subscriptions, but for the
\* caps
ConstructedWith(store, throws) ==
  /\ subs = Empty
  /\ attached = {}
  /\ outbound = Empty
  /\ inbound = Empty
  /\ queue = <<>>
  /\ holder = <<>>
  /\ delPending = {}
  /\ emitted = <<>>
  /\ notified = <<>>
  /\ handled = {}
  /\ cleared = {}
  /\ now = 0
  /\ nobs = 0
  /\ nunsub = 0
  /\ stats = [ephemeral |-> 0, persistent |-> 0]
  /\ db = store
  /\ controls = Empty
  /\ timeouts = <<>>
  /\ pending = {}
  /\ thrown = {}
  /\ nerr = 0
  /\ registry = {}
  /\ lifecycle = "constructed"
  /\ starting = <<>>
  /\ relayThrows = throws

ConstructedOver(store) == ConstructedWith(store, FALSE)

\* the state after construction over an empty store, but for the caps
Constructed == ConstructedOver(Empty)

\* new Switchboard(ctx, {})
Init ==
  /\ Constructed
  /\ maxEphemeral = DefaultMax
  /\ maxPersistent = DefaultMax

\* new Switchboard(ctx, {subscriptionMaxEphemeral, subscriptionMaxPersistent})
InitCaps ==
  /\ Constructed
  /\ maxEphemeral = subscriptionMaxEphemeral
  /\ maxPersistent = subscriptionMaxPersistent

\* the subscribe(qs) calls that do not throw
Accepted(qs) == ~TooManySubscribers /\ ~DuplicatedOrigin(qs)

Next ==
  \/ RegistryLoads(Origin)
  \/ \E id \in SubIds :
       /\ Accepted(Descriptor(id, Wildcard, Dests, Wildcard, TRUE))
       /\ subscribe(Descriptor(id, Wildcard, Dests, Wildcard, TRUE))
  \/ \E id \in SubIds : nunsub < MaxUnsub /\ id \in DOMAIN subs /\ unsubscribe(id)
  \/ \E id \in SubIds, h \in Hashes, d \in Dests, a \in Accounts :
       nobs < MaxObs /\ emitOutbound(id, h, d, Signer(a))
  \/ \E id \in SubIds, h \in Hashes, d \in Dests :
       nobs < MaxObs /\ emitInbound(id, d, h)
  \/ Enter
  \/ onOutboundMessage
  \/ onInboundMessage
  \/ DelApply
  \/ clearPendingStates

\* two subscriptions, subscribe and unsubscribe; the clock stands still
Spec == Init /\ [][Next]_vars

NextTimed ==
  \/ RegistryLoads(Origin)
  \/ /\ Accepted(Descriptor("s1", Wildcard, Dests, Wildcard, TRUE))
     /\ subscribe(Descriptor("s1", Wildcard, Dests, Wildcard, TRUE))
  \/ \E h \in Hashes, d \in Dests, a \in Accounts :
       nobs < MaxObsTimed /\ emitOutbound("s1", h, d, Signer(a))
  \/ \E h \in Hashes, d \in Dests :
       nobs < MaxObsTimed /\ emitInbound("s1", d, h)
  \/ Enter
  \/ onOutboundMessage
  \/ onInboundMessage
  \/ DelApply
  \/ Tick

\* one subscription, legs observed while time passes
SpecTimed == Init /\ [][NextTimed]_vars

NextSerial ==
  \/ RegistryLoads(Origin)
  \/ /\ delPending = {}
     /\ Accepted(Descriptor("s1", Wildcard, Dests, Wildcard, TRUE))
     /\ subscribe(Descriptor("s1", Wildcard, Dests, Wildcard, TRUE))
  \/ \E h \in Hashes, d \in Dests, a \in Accounts :
       delPending = {} /\ nobs < MaxObsSerial /\ emitOutbound("s1", h, d, Signer(a))
  \/ \E h \in Hashes, d \in Dests :
       delPending = {} /\ nobs < MaxObsSerial /\ emitInbound("s1", d, h)
  \/ delPending = {} /\ Enter
  \/ delPending = {} /\ onOutboundMessage
  \/ delPending = {} /\ onInboundMessage
  \/ DelApply

\* one subscription; every delete takes effect before anything else happens
\* (the schedules in which the store serves a del() at once)
SpecSerial == Init /\ [][NextSerial]_vars

NextThrows ==
  \/ NextSerial
  \/ delPending = {} /\ onOutboundMessageListenerThrows
  \/ delPending = {} /\ onInboundMessageListenerThrows

\* SpecSerial with notification listeners that may throw
SpecThrows == Init /\ [][NextThrows]_vars

\* the subscription ids of SpecCaps
CapIds == {"s1", "s2"}

NextCaps ==
  \/ \E id \in CapIds, ephemeral \in BOOLEAN :
       subscribe(Descriptor(id, Wildcard, Dests, Wildcard, ephemeral))
  \/ \E qs \in pending : subscribeResume(qs)
  \/ \E id \in CapIds : nunsub < MaxUnsubCaps /\ unsubscribe(id)
  \/ Enter
  \/ clearPendingStates

\* ephemeral and persistent subscriptions come and go; nothing is observed
SpecCaps == InitCaps /\ [][NextCaps]_vars

\* the senders of the messages of SpecSenders (<<>>: not known)
Senders == {Signer("acctA"), Signer("acctB"), <<>>}

\* the descriptors of SpecSenders
SenderCriteria ==
  {Descriptor("s1", senders, Dests, events, TRUE) :
     senders \in {Wildcard, Listed({}), Listed({"acctA"})},
     events \in {Wildcard, Listed({"Sent"})}}

NextSenders ==
  \/ RegistryLoads(Origin)
  \/ \E qs \in SenderCriteria : delPending = {} /\ Accepted(qs) /\ subscribe(qs)
  \/ \E qs \in SenderCriteria : delPending = {} /\ updateSubscription(qs)
  \/ delPending = {} /\ updateSenders("s1")
  \/ \E h \in Hashes, d \in Dests, sender \in Senders :
       delPending = {} /\ nobs < MaxObsSenders /\ emitOutbound("s1", h, d, sender)
  \/ \E h \in Hashes, d \in Dests :
       delPending = {} /\ nobs < MaxObsSenders /\ emitInbound("s1", d, h)
  \/ delPending = {} /\ Enter
  \/ delPending = {} /\ onOutboundMessage
  \/ delPending = {} /\ onInboundMessage
  \/ DelApply

\* one subscription whose senders and events are updated while its legs are
\* observed
SpecSenders == Init /\ [][NextSenders]_vars

\* the chains and the descriptors of SpecDestinations
AllDests == {"d1", "d2"}

DestinationCriteria ==
  {Descriptor("s1", Wildcard, destinations, Wildcard, TRUE) :
     destinations \in {{"d1"}, {"d2"}, {"d1", "d2"}}}

NextDestinations ==
  \/ RegistryLoads(Origin)
  \/ \E qs \in DestinationCriteria : delPending = {} /\ Accepted(qs) /\ subscribe(qs)
  \/ \E qs \in DestinationCriteria : delPending = {} /\ updateSubscription(qs)
  \/ delPending = {} /\ updateDestinations("s1")
  \/ \E h \in Hashes, d \in AllDests, a \in Accounts :
       delPending = {} /\ nobs < MaxObsDestinations /\ emitOutbound("s1", h, d, Signer(a))
  \/ \E h \in Hashes, d \in AllDests :
       delPending = {} /\ nobs < MaxObsDestinations /\ emitInbound("s1", d, h)
  \/ delPending = {} /\ Enter
  \/ delPending = {} /\ onOutboundMessage
  \/ delPending = {} /\ onInboundMessage
  \/ DelApply

\* one subscription whose destinations are updated while its legs are observed
SpecDestinations == Init /\ [][NextDestinations]_vars

\* the descriptors of SpecLegs: relayed events are requested, and an update
\* replaces the destination d1 by d2
LegsDescriptor == Descriptor("s1", Wildcard, {"d1"}, Wildcard, TRUE)

LegsUpdate == Descriptor("s1", Wildcard, {"d2"}, Wildcard, TRUE)

NextLegs ==
  \/ Accepted(LegsDescriptor) /\ subscribe(LegsDescriptor)
  \/ "s1" \in DOMAIN subs /\ updateSubscription(LegsUpdate)
  \/ nunsub + nerr < MaxLegErrors /\ "s1" \in DOMAIN subs /\ unsubscribe("s1")
  \/ \E o \in attached : nunsub + nerr < MaxLegErrors /\ LegError(o)
  \/ TimerFires

\* one subscription whose observer legs fail and are recovered
SpecLegs == Init /\ [][NextLegs]_vars

\* SpecLegs in which a timer that was set fires
SpecLegsFair == SpecLegs /\ WF_vars(TimerFires)

\* the descriptors of SpecRelay: the relayed events are requested or not
RelayCriteria ==
  {Descriptor("s1", Wildcard, destinations, events, TRUE) :
     destinations \in {{"d1"}, {"d2"}},
     events \in {Wildcard, Listed({"Sent"})}}

NextRelay ==
  \/ \E qs \in RelayCriteria : Accepted(qs) /\ subscribe(qs)
  \/ \E qs \in RelayCriteria : "s1" \in DOMAIN subs /\ updateSubscription(qs)
  \/ "s1" \in DOMAIN subs /\ updateEvents("s1")
  \/ "s1" \in DOMAIN subs /\ updateDestinations("s1")
  \/ \E o \in attached : o.dir = "relay" /\ nerr < MaxRelayErrors /\ LegError(o)
  \/ TimerFires

\* one subscription whose events and destinations are updated while its
\* relay observer fails and is recovered
SpecRelay == Init /\ [][NextRelay]_vars

\* the persisted descriptors of SpecStart: s1 of the parachain o asks for the
\* relayed events, s2 is of the parachain o or of the relay chain
StoredS1 == Descriptor("s1", Wildcard, {"d1"}, Wildcard, FALSE)

StoredS2 ==
  {[Descriptor("s2", Wildcard, {"d1"}, Wildcard, FALSE) EXCEPT !.origin = c] :
     c \in {Origin, RelayId}}

\* the stores a Switchboard is constructed over
Stores ==
  {Empty, Put(Empty, "s1", StoredS1)}
    \cup {Put(Empty, "s2", r) : r \in StoredS2}
    \cup {Put(Put(Empty, "s1", StoredS1), "s2", r) : r \in StoredS2}

\* new Switchboard(ctx, {}) over a store that holds subscriptions
InitStored ==
  /\ \E store \in Stores : ConstructedOver(store)
  /\ maxEphemeral = DefaultMax
  /\ maxPersistent = DefaultMax

NextStart ==
  \/ start
  \/ startLoad
  \/ \E c \in {Origin, RelayId} : RegistryLoads(c)
  \/ \E id \in {"s1", "s2"} :
       /\ Accepted(Descriptor(id, Wildcard, {"d1"}, Wildcard, TRUE))
       /\ subscribe(Descriptor(id, Wildcard, {"d1"}, Wildcard, TRUE))

\* a Switchboard over stored subscriptions is started; ephemeral
\* subscriptions are added before, while and after it loads the stored ones
SpecStart == InitStored /\ [][NextStart]_vars

NextUpdates ==
  \/ \E qs \in RelayCriteria : Accepted(qs) /\ subscribe(qs)
  \/ nunsub < MaxUnsub /\ unsubscribe("s1")
  \/ \E qs \in RelayCriteria : updateSubscription(qs)
  \/ updateSenders("s1")
  \/ updateDestinations("s1")
  \/ updateEvents("s1")
  \/ Enter
  \/ clearPendingStates

\* the update operations are called whether s1 is subscribed or not
SpecUpdates == Init /\ [][NextUpdates]_vars

NextStop ==
  \/ lifecycle # "stopped" /\ Accepted(LegsDescriptor) /\ subscribe(LegsDescriptor)
  \/ \E o \in attached : nerr < MaxLegErrors /\ LegError(o)
  \/ TimerFires
  \/ stop

\* one subscription whose legs fail and are recovered, and stop(); nothing is
\* subscribed or started after stop()
SpecStop == Init /\ [][NextStop]_vars

(* ------------------------------- claims ------------------------------- *)

\* the indices of the engine emissions of a kind for subscription s, hash h
EmittedOf(type, s, h) ==
  {i \in DOMAIN emitted : /\ emitted[i].type = type
                          /\ emitted[i].subscriptionId = s
                          /\ emitted[i].messageHash = h}

Keys == Hashes \X Dests

\* every engine call made so far on key k, finished or not
Observed(k) ==
  {[op |-> x.op, msg |-> x.msg] : x \in {y \in handled : Key(y) = k}}
    \cup {[op |-> queue[i].op, msg |-> queue[i].msg] : i \in {j \in DOMAIN queue :
            queue[j].op # "clear" /\ Key(queue[j]) = k}}
    \cup {[op |-> holder[i].op, msg |-> holder[i].msg] : i \in {j \in DOMAIN holder :
            holder[j].op # "clear" /\ Key(holder[j]) = k}}

\* the sent legs and the received legs among them
ObservedSent(k) == {x.msg : x \in {y \in Observed(k) : y.op = "out"}}

ObservedReceived(k) == {x.msg : x \in {y \in Observed(k) : y.op = "in"}}

\* the last unsubscribe(id) has completed and id was not subscribed again
Unsubscribed(id) ==
  /\ id \notin DOMAIN subs
  /\ \E c \in cleared : c.subscriptionId = id
  /\ \A x \in InFlight(id) : x.op # "clear"

\* the entries of both namespaces that were stored for subscription id
EntriesOf(id) ==
  {outbound[k] : k \in {x \in DOMAIN outbound : outbound[x].subscriptionId = id}}
    \cup {inbound[k] : k \in {x \in DOMAIN inbound : inbound[x].subscriptionId = id}}

\* C1: Received(s,m) is emitted at most once for every subscription s and
\* message m, whatever legs are observed again after the first match.
C1_ReceivedAtMostOnce ==
  \A s \in SubIds, h \in Hashes : Cardinality(EmittedOf("Received", s, h)) <= 1

\* C2: every emitted Received joins a sent and a received context that were
\* observed within outboundTTL of each other.
C2_ReceivedOnlyWithinTTL ==
  \A i \in DOMAIN emitted :
    emitted[i].type = "Received" =>
      /\ emitted[i].inMsg.at - emitted[i].outMsg.at <= OutboundTTL
      /\ emitted[i].outMsg.at - emitted[i].inMsg.at <= OutboundTTL

\* C3: once onOutboundMessage has handled a sent leg, a Sent notification for
\* its subscription and message has been emitted.
C3_SentEmittedAtFirstSentLeg ==
  \A x \in handled :
    x.op = "out" => EmittedOf("Sent", x.msg.subscriptionId, x.msg.messageHash) # {}

\* C4: a sent leg that was stored and whose received counterpart was not
\* observed within outboundTTL gets exactly one Timeout by the next sweep
\* after its expiry, and its pending entry is removed.
C4_TimeoutAfterTTL ==
  \A x \in handled :
    ( /\ x.op = "out"
      /\ ~x.matched
      /\ now > x.msg.at + OutboundTTL + SweepPeriod
      /\ \A r \in ObservedReceived(OutKey(x.msg)) : r.at > x.msg.at + OutboundTTL )
    => /\ Cardinality(EmittedOf("Timeout", x.msg.subscriptionId, x.msg.messageHash)) = 1
       /\ ~(Has(outbound, OutKey(x.msg)) /\ outbound[OutKey(x.msg)] = x.msg)

\* C5: a notification is passed to the NotifierHub only for a subscription
\* that has a handler: after unsubscribe(s) removed the handler of s, what the
\* engine emits for s is dropped.
C5_NoNotifyWithoutHandler ==
  [][\A i \in DOMAIN notified' :
       i > Len(notified) => notified'[i].subscriptionId \in DOMAIN subs]_vars

\* C5 witness: the engine emitted for a subscription whose handler was
\* removed, and the notifier did not get the message.
C5_DroppedAfterUnsubscribe ==
  \E i \in DOMAIN emitted :
    /\ emitted[i].subscriptionId \notin DOMAIN subs
    /\ \E c \in cleared : c.subscriptionId = emitted[i].subscriptionId
    /\ \A j \in DOMAIN notified : notified[j] # emitted[i]

C7_EmissionOrder ==
  /\ \A i \in DOMAIN emitted :
       emitted[i].type \in {"Received", "Relayed", "Timeout"} =>
         \E j \in 1..(i - 1) : /\ emitted[j].type = "Sent"
                               /\ emitted[j].subscriptionId = emitted[i].subscriptionId
                               /\ emitted[j].messageHash = emitted[i].messageHash
  /\ \A s \in SubIds, h \in Hashes :
       EmittedOf("Received", s, h) = {} \/ EmittedOf("Timeout", s, h) = {}

\* the case of C8 on key k: one sent and one received observation of the
\* message, both of the same subscription, both handled, the subscription
\* never unsubscribed, and no delete still on its way to the store
OnePair(k, o, r) ==
  /\ delPending = {}
  /\ o.subscriptionId = r.subscriptionId
  /\ \A c \in cleared : c.subscriptionId # o.subscriptionId
  /\ InFlight(o.subscriptionId) = {}
  /\ ObservedSent(k) = {o}
  /\ ObservedReceived(k) = {r}
  /\ {o, r} \subseteq {x.msg : x \in handled}

\* C8: one sent and one received observation of a message under one
\* subscription, in either order, give exactly one Received, which carries
\* both contexts, and leave no entry for the message in either namespace.
C8_OnePairMatchesOnce ==
  \A k \in Keys : \A o \in ObservedSent(k), r \in ObservedReceived(k) :
    OnePair(k, o, r) =>
      /\ \E i \in DOMAIN emitted :
           /\ emitted[i].outMsg = o
           /\ emitted[i].inMsg = r
           /\ emitted[i].type = "Received"
           /\ \A j \in DOMAIN emitted : OutKey(emitted[j].outMsg) = k => j = i
      /\ ~Has(outbound, k)
      /\ ~Has(inbound, k)

\* C8 witness: the pair was handled with the received leg first.
C8_PairOutOfOrder ==
  \E k \in Keys : \E o \in ObservedSent(k), r \in ObservedReceived(k) :
    OnePair(k, o, r) /\ r.oid < o.oid

\* C9: a leg observed under one subscription is never joined with a leg
\* observed under another one.
C9_IsolatedPerSubscription ==
  \A i \in DOMAIN emitted :
    emitted[i].outMsg.subscriptionId = emitted[i].inMsg.subscriptionId

\* C10: the removal of a matched counterpart has taken effect before any
\* other engine operation reads the store, so that no stored leg is matched
\* by two operations.
C10_AtomicCriticalSection ==
  \A i \in DOMAIN emitted, j \in DOMAIN emitted :
    i # j => /\ emitted[i].outMsg.oid # emitted[j].outMsg.oid
             /\ emitted[i].inMsg.oid # emitted[j].inMsg.oid

\* the engine operations of a side that have finished on key k
HandledOn(op, k) == {x \in handled : x.op = op /\ Key(x) = k}

\* the operation of a set that was called last
Latest(S) == CHOOSE x \in S : \A y \in S : y.msg.oid <= x.msg.oid

\* the notifications the engine emitted for key k
EmittedOn(k) == {i \in DOMAIN emitted : OutKey(emitted[i].outMsg) = k}

\* C11: while only one side of a message has been observed, however many
\* times, the engine emits no notification for it and the store holds one
\* entry for its key, in the namespace of that side: the leg observed last.
C11_DuplicateOverwrites ==
  \A k \in Keys :
    /\ (ObservedReceived(k) = {} /\ HandledOn("out", k) # {}) =>
         /\ EmittedOn(k) = {}
         /\ ~Has(inbound, k)
         /\ Has(outbound, k)
         /\ outbound[k] = Latest(HandledOn("out", k)).msg
    /\ (ObservedSent(k) = {} /\ HandledOn("in", k) # {}) =>
         /\ EmittedOn(k) = {}
         /\ ~Has(outbound, k)
         /\ Has(inbound, k)
         /\ inbound[k] = Latest(HandledOn("in", k)).msg

\* C11 witness: the sent leg of a message was handled twice and no received
\* leg of it was observed.
C11_SentLegReplayed ==
  \E k \in Keys :
    /\ ObservedReceived(k) = {}
    /\ Cardinality(HandledOn("out", k)) >= 2

\* C12: no pending entry, outbound or inbound, is still in the store once
\* outboundTTL and one sweep period have passed since it was stored.
C12_PendingEntriesReaped ==
  /\ \A k \in DOMAIN outbound : now <= outbound[k].at + OutboundTTL + SweepPeriod
  /\ \A k \in DOMAIN inbound : now <= inbound[k].at + OutboundTTL + SweepPeriod

\* C13: a match whose notification listener throws still removes the
\* counterpart entry, stores nothing for the current leg and leaves the
\* critical section.
C13_ListenerFailureKeepsTransition ==
  [][\A x \in handled' \ handled :
       x.threw =>
         /\ holder' = <<>>
         /\ outbound' = outbound
         /\ inbound' = inbound
         /\ delPending' =
              delPending \cup {<<IF x.op = "out" THEN "in" ELSE "out", Key(x)>>}]_vars

\* C13 witness: a sent leg matched a stored received leg, the listener threw,
\* and afterwards neither namespace holds an entry for the message.
C13_MatchedWithThrowingListener ==
  \E x \in handled :
    /\ x.op = "out"
    /\ x.matched
    /\ x.threw
    /\ delPending = {}
    /\ ~Has(outbound, Key(x))
    /\ ~Has(inbound, Key(x))

\* C14: a subscribe call made while a counter is at its cap throws
\* TOO_MANY_SUBSCRIBERS and changes nothing, whichever kind the descriptor
\* is of; a call made below both caps does not throw it.
C14_TooManySubscribers ==
  [][/\ \A r \in thrown' \ thrown :
          r.code = "TOO_MANY_SUBSCRIBERS" =>
            /\ TooManySubscribers
            /\ UNCHANGED <<subs, attached, stats, db, pending>>
     /\ TooManySubscribers =>
          /\ pending' \subseteq pending
          /\ \/ pending' # pending
             \/ /\ stats'.ephemeral <= stats.ephemeral
                /\ stats'.persistent <= stats.persistent
                /\ DOMAIN subs' \subseteq DOMAIN subs
     /\ \A id \in CapIds, ephemeral \in BOOLEAN :
          subscribe(Descriptor(id, Wildcard, Dests, Wildcard, ephemeral)) =>
            (TooManySubscribers =>
               [op |-> "subscribe", code |-> "TOO_MANY_SUBSCRIBERS"] \in thrown')]_vars

\* C14 witness: a subscribe was rejected while only the persistent counter
\* was at its cap and no ephemeral subscription existed.
C14_RejectedAtPersistentCap ==
  /\ \E r \in thrown : r.code = "TOO_MANY_SUBSCRIBERS"
  /\ stats.persistent >= maxPersistent
  /\ stats.ephemeral = 0

NewlyEmitted == {emitted'[i] : i \in (Len(emitted) + 1)..Len(emitted')}

NewlyNotified == {notified'[i] : i \in (Len(notified) + 1)..Len(notified')}

\* the descriptor of the subscription of msg admits the type of msg
EventAdmitted(msg) ==
  \/ subs[msg.subscriptionId].descriptor.events.any
  \/ msg.type \in subs[msg.subscriptionId].descriptor.events.of

C17_WildcardAndEmptySenders ==
  [][\A msg \in NewlyEmitted :
       (msg.subscriptionId \in DOMAIN subs /\ EventAdmitted(msg)) =>
         /\ controls[subs[msg.subscriptionId].sendersControl].senders
              = sendersCriteria(Wildcard) => msg \in NewlyNotified
         /\ controls[subs[msg.subscriptionId].sendersControl].senders
              = sendersCriteria(Listed({})) => msg \notin NewlyNotified]_vars

Scheduled(kind, id, chainId) ==
  \E i \in DOMAIN timeouts :
    timeouts[i].kind = kind /\ timeouts[i].id = id /\ timeouts[i].chainId = chainId

\* the handler of id holds attached origin legs
OriginLegsAttached(sbs, att, id) ==
  id \in DOMAIN sbs /\ sbs[id].originSubs # {} /\ sbs[id].originSubs \subseteq att

\* the handler of id holds an attached destination leg of the chain
DestinationLegAttached(sbs, att, id, chainId) ==
  id \in DOMAIN sbs /\ \E l \in sbs[id].destinationSubs : l.chainId = chainId /\ l \in att

\* the handler of id holds an attached relay leg
RelayLegAttached(sbs, att, id) ==
  id \in DOMAIN sbs /\ sbs[id].relaySub # {} /\ sbs[id].relaySub \subseteq att

\* C19: an error on an origin, destination or relay leg, and the recovery
\* that follows it, leave every handler in the subscriptions map with its
\* descriptor, and leave the counters and the persisted records as they are;
\* the error detaches the failed leg only, and the handler keeps the legs of
\* the other kinds.
C19_LegErrorKeepsSubscription ==
  [][/\ ((\E o \in attached : LegError(o)) \/ TimerFires) =>
          /\ DOMAIN subs' = DOMAIN subs
          /\ \A id \in DOMAIN subs : subs'[id].descriptor = subs[id].descriptor
          /\ stats' = stats
          /\ db' = db
     /\ \A o \in attached : LegError(o) =>
          /\ attached' = attached \ {o}
          /\ \A id \in DOMAIN subs :
               /\ o.dir # "out" => subs'[id].originSubs = subs[id].originSubs
               /\ o.dir # "in" => subs'[id].destinationSubs = subs[id].destinationSubs
               /\ subs'[id].relaySub = subs[id].relaySub]_vars

\* C19 witness: an origin leg and a destination leg of s1 have failed, their
\* timers are set, and s1 is still counted and still has its handler.
C19_TwoLegsFailed ==
  /\ "s1" \in DOMAIN subs
  /\ nerr = 2
  /\ Scheduled("out", "s1", Origin)
  /\ Scheduled("in", "s1", "d1")
  /\ stats.ephemeral = 1
  /\ nunsub = 0

\* C20: the error of a leg its handler holds sets a recovery timer; a timer
\* that fires while the subscription exists leaves the leg attached again
\* (a destination leg if the destination is still listed); and a timer that
\* is set leads to the leg being attached, unless the subscription is gone
\* or the destination is no longer listed.
C20_FailedLegReattached ==
  /\ [][\A o \in attached :
          (/\ LegError(o)
           /\ o.id \in DOMAIN subs
           /\ o \in subs[o.id].originSubs \cup subs[o.id].destinationSubs
                      \cup subs[o.id].relaySub)
            => /\ Len(timeouts') = Len(timeouts) + 1
               /\ timeouts'[Len(timeouts')].id = o.id
               /\ timeouts'[Len(timeouts')].kind = o.dir
               /\ timeouts'[Len(timeouts')].chainId = o.chainId]_vars
  /\ [][(TimerFires /\ Head(timeouts).id \in DOMAIN subs) =>
          /\ Head(timeouts).kind = "out" =>
                OriginLegsAttached(subs', attached', Head(timeouts).id)
          /\ (/\ Head(timeouts).kind = "in"
              /\ Head(timeouts).chainId
                    \in subs[Head(timeouts).id].descriptor.destinations) =>
                DestinationLegAttached(subs', attached', Head(timeouts).id,
                                       Head(timeouts).chainId)
          /\ Head(timeouts).kind = "relay" =>
                RelayLegAttached(subs', attached', Head(timeouts).id)]_vars
  /\ Scheduled("out", "s1", Origin) ~>
        ("s1" \notin DOMAIN subs \/ OriginLegsAttached(subs, attached, "s1"))
  /\ \A c \in AllDests :
        Scheduled("in", "s1", c) ~>
          \/ "s1" \notin DOMAIN subs
          \/ c \notin subs["s1"].descriptor.destinations
          \/ DestinationLegAttached(subs, attached, "s1", c)
  /\ Scheduled("relay", "s1", RelayId) ~>
        ("s1" \notin DOMAIN subs \/ RelayLegAttached(subs, attached, "s1"))

\* C20 witness: the origin legs of s1 were recovered twice: each recovery
\* left one leg of the pair before it attached, and the handler holds a pair
\* that is attached.
C20_OriginRecoveredTwice ==
  /\ OriginLegsAttached(subs, attached, "s1")
  /\ timeouts = <<>>
  /\ nerr = 2
  /\ Cardinality({o \in attached : o.id = "s1" /\ o.dir = "out"}) = 4

\* C21: every observer that is attached on behalf of a subscription is held
\* by the handler of that subscription, and a handler whose origin legs are
\* attached has exactly two origin observers attached.
C21_NoLeakedObservers ==
  /\ \A o \in attached : o.id \in DOMAIN subs /\ o \in Tracked(o.id)
  /\ \A id \in DOMAIN subs :
       OriginLegsAttached(subs, attached, id) =>
         Cardinality({o \in attached : o.id = id /\ o.dir = "out"}) = 2

\* every attached relay observer belongs to a handler whose descriptor asks
\* for relayed events between parachains
RelayOnlyIfRequested ==
  \A o \in attached :
    o.dir = "relay" => o.id \in DOMAIN subs /\ shouldMonitorRelay(subs[o.id].descriptor)

\* C22: after subscribe, after updateEvents(id) and after a relay recovery
\* retry, a relay observer is attached only for a subscription whose current
\* descriptor requests Relayed events, has a parachain origin and has a
\* parachain destination.
C22_RelayOnlyWhileRequested ==
  [][(\/ \E qs \in RelayCriteria : subscribe(qs)
      \/ updateEvents("s1")
      \/ TimerFires /\ Head(timeouts).kind = "relay")
       => RelayOnlyIfRequested']_vars

\* C28: after updateDestinations(id) every attached origin observer and the
\* attached relay observer of the subscription filter by the destinations of
\* the descriptor.
C28_AllFiltersUpdated ==
  [][("s1" \in DOMAIN subs /\ updateDestinations("s1")) =>
       \A o \in attached' :
         (o.id = "s1" /\ o.dir \in {"out", "relay"}) =>
           controls'[o.ctl].message
             = messageCriteria(subs'["s1"].descriptor.destinations)]_vars

\* C23: once stop() has been called no observer is attached, whatever
\* recovery timers were set before.
C23_NothingAttachedAfterStop ==
  lifecycle = "stopped" => attached = {}

\* the stored subscriptions a step of start() loads whose #monitor succeeds
Loaded ==
  {getByNetworkId(Head(starting))[i] : i \in
     {j \in DOMAIN getByNetworkId(Head(starting)) :
        ~DuplicatedOrigin(getByNetworkId(Head(starting))[j])}}

\* C24: when start() has loaded the subscriptions of a chain, each of them
\* whose monitor setup did not throw has a handler with its descriptor, the
\* observers the handler holds are attached, origin observers among them,
\* and the persistent counter has grown by their number.
C24_StartMonitorsPersisted ==
  [][startLoad =>
       /\ \A qs \in Loaded :
            /\ qs.id \in DOMAIN subs'
            /\ subs'[qs.id].descriptor = qs
            /\ subs'[qs.id].originSubs # {}
            /\ subs'[qs.id].originSubs \subseteq attached'
            /\ subs'[qs.id].destinationSubs \subseteq attached'
            /\ subs'[qs.id].relaySub \subseteq attached'
       /\ stats'.persistent = stats.persistent + Cardinality(Loaded)
       /\ stats'.ephemeral = stats.ephemeral]_vars

\* C25: an update operation called with an id that has no handler throws
\* nothing and leaves handlers, observers, controls and counters as they are.
C25_UnknownIdOnlyWarns ==
  [][("s1" \notin DOMAIN subs
        /\ (\/ \E qs \in RelayCriteria : updateSubscription(qs)
            \/ updateSenders("s1")
            \/ updateDestinations("s1")
            \/ updateEvents("s1")))
       => UNCHANGED <<subs, attached, controls, stats, thrown>>]_vars

\* C26: neither counter ever exceeds its cap.
C26_CountersWithinCaps ==
  /\ stats.ephemeral <= maxEphemeral
  /\ stats.persistent <= maxPersistent

\* C27: a recovery timer that fires while the subscription exists installs
\* controls with the criteria of the descriptor the handler has at that
\* moment, and leaves destination observers for the destinations of that
\* descriptor.
C27_RetryUsesCurrentDescriptor ==
  [][(TimerFires /\ Head(timeouts).id \in DOMAIN subs) =>
       /\ Head(timeouts).kind = "out" =>
            /\ controls'[subs'[Head(timeouts).id].sendersControl]
                 = ControlsOf(subs[Head(timeouts).id].descriptor)
            /\ controls'[subs'[Head(timeouts).id].messageControl]
                 = ControlsOf(subs[Head(timeouts).id].descriptor)
       /\ Head(timeouts).kind = "in" =>
            {l.chainId : l \in subs'[Head(timeouts).id].destinationSubs}
              = subs[Head(timeouts).id].descriptor.destinations]_vars

\* one subscription whose destinations change while any of its legs may fail
InboundCriteria ==
  {Descriptor("s1", Wildcard, destinations, Wildcard, TRUE) :
     destinations \in {{"d1"}, {"d1", "d2"}}}

NextInbound ==
  \/ \E qs \in InboundCriteria : Accepted(qs) /\ subscribe(qs)
  \/ \E qs \in InboundCriteria : "s1" \in DOMAIN subs /\ updateSubscription(qs)
  \/ "s1" \in DOMAIN subs /\ updateDestinations("s1")
  \/ \E o \in attached : nerr < MaxLegErrors /\ LegError(o)
  \/ TimerFires

SpecInbound == Init /\ [][NextInbound]_vars

\* the destination observers of subscription id that are attached
InboundOf(id) == {o \in attached : o.id = id /\ o.dir = "in"}

OneInboundPerChain ==
  \A id \in DOMAIN subs : \A a, b \in InboundOf(id) : a.chainId = b.chainId => a = b

\* a step that completes updateDestinations(id) or a destination retry of id
DestinationsUpdated(id) ==
  /\ id \in DOMAIN subs
  /\ \/ updateDestinations(id)
     \/ TimerFires /\ Head(timeouts).kind = "in" /\ Head(timeouts).id = id

\* C29: a subscription never has two destination observers on one chain, and
\* after updateDestinations(id) or a destination retry the chains observed
\* are the destinations of the descriptor, the observers of the destinations
\* that stay being the ones that were attached before.
C29_OneObserverPerDestination ==
  /\ []OneInboundPerChain
  /\ [][\A id \in {"s1"} : DestinationsUpdated(id) =>
          /\ {o.chainId : o \in InboundOf(id)'} = subs'[id].descriptor.destinations
          /\ \A o \in subs[id].destinationSubs :
               o.chainId \in subs[id].descriptor.destinations => o \in InboundOf(id)']_vars

\* a step in which subscribe(qs) throws before it awaits: at its cap test, or
\* in the #monitor of an ephemeral descriptor
SubscribeThrows(qs) ==
  subscribe(qs) /\ (TooManySubscribers \/ (qs.ephemeral /\ DuplicatedOrigin(qs)))

\* a step in which subscribe(qs) throws after its insert, in #monitor
SubscribeResumeThrows(qs) ==
  subscribeResume(qs) /\ DuplicatedOrigin(qs)

\* C30: a subscribe that throws registers no handler, attaches no observer,
\* leaves the counters as they were and leaves no descriptor of its own in
\* the store: the store is as it was before the call, so that after a
\* failure that follows the insert a stored descriptor belongs to a
\* registered persistent subscription.
C30_SubscribeAllOrNothing ==
  [][\A id \in CapIds, ephemeral \in BOOLEAN :
       LET qs == Descriptor(id, Wildcard, Dests, Wildcard, ephemeral)
       IN  /\ SubscribeThrows(qs) \/ SubscribeResumeThrows(qs) =>
                subs' = subs /\ attached' = attached /\ stats' = stats
           /\ SubscribeThrows(qs) => db' = db
           /\ SubscribeResumeThrows(qs) /\ id \in DOMAIN db' =>
                id \in DOMAIN subs' /\ ~subs'[id].descriptor.ephemeral]_vars

\* a Switchboard over any of the stores, with an ingress whose relay calls
\* throw or do not
InitRelayThrows ==
  /\ \E store \in Stores, throws \in BOOLEAN : ConstructedWith(store, throws)
  /\ maxEphemeral = DefaultMax
  /\ maxPersistent = DefaultMax

NextRelayThrows ==
  \/ start
  \/ startLoad
  \/ \E qs \in RelayCriteria : Accepted(qs) /\ subscribe(qs)
  \/ \E qs \in RelayCriteria : "s1" \in DOMAIN subs /\ updateSubscription(qs)
  \/ "s1" \in DOMAIN subs /\ updateEvents("s1")

SpecRelayThrows == InitRelayThrows /\ [][NextRelayThrows]_vars

\* in the next state qs is registered with its origin and destination legs
\* attached and with no relay observer
MonitoredWithoutRelay(qs) ==
  /\ qs.id \in DOMAIN subs'
  /\ subs'[qs.id].descriptor = qs
  /\ {o.chainId : o \in subs'[qs.id].originSubs} = {qs.origin}
  /\ subs'[qs.id].originSubs \subseteq attached'
  /\ {o.chainId : o \in subs'[qs.id].destinationSubs} = qs.destinations
  /\ subs'[qs.id].destinationSubs \subseteq attached'
  /\ subs'[qs.id].relaySub = {}
  /\ ~\E o \in attached' : o.id = qs.id /\ o.dir = "relay"

HandlersOf(ephemeral) ==
  {id \in DOMAIN subs : subs[id].descriptor.ephemeral = ephemeral}

\* C32: in every state the ephemeral counter is the number of handlers with
\* an ephemeral descriptor and the persistent counter is the number of the
\* other handlers.
C32_CountersAgreeWithRegistry ==
  /\ stats.ephemeral = Cardinality(HandlersOf(TRUE))
  /\ stats.persistent = Cardinality(HandlersOf(FALSE))

\* C33: a recovery timer that fires when its subscription has no handler any
\* more attaches no observer, registers nothing and throws nothing, whatever
\* the kind of leg it was created for.
C33_RetryAfterUnsubscribeIsNoOp ==
  [][(TimerFires /\ Head(timeouts).id \notin DOMAIN subs) =>
       /\ attached' = attached
       /\ subs' = subs
       /\ thrown' = thrown]_vars

\* subscribe calls for one id, from either origin, whatever the registry
\* holds for it, while the legs of its handler may fail
HandlerCriteria ==
  {[LegsDescriptor EXCEPT !.origin = c] : c \in {Origin, RelayId}}

\* the subscriptions counted in SpecHandlers
MaxSubscribes == 3

NextHandlers ==
  \/ \E qs \in HandlerCriteria : stats.ephemeral < MaxSubscribes /\ subscribe(qs)
  \/ \E o \in attached : nerr < MaxLegErrors /\ LegError(o)
  \/ TimerFires

SpecHandlers == Init /\ [][NextHandlers]_vars

\* C34: a subscribe for an id that has a handler throws and leaves the
\* handler, the attached observers and the counters as they were, so that
\* every attached observer of the id is one its handler tracks.
C34_OneHandlerPerId ==
  [][\A qs \in HandlerCriteria :
       (qs.id \in DOMAIN subs /\ subscribe(qs)) =>
         /\ thrown' # {}
         /\ subs' = subs
         /\ attached' = attached
         /\ stats' = stats]_vars

\* the engine calls of SpecStore
MaxObsStore == 3

\* one subscription whose observations reach an engine whose store may fail
\* at any read and at any write; deletes are applied at once
NextStore ==
  \/ RegistryLoads(Origin)
  \/ /\ delPending = {}
     /\ Accepted(Descriptor("s1", Wildcard, Dests, Wildcard, TRUE))
     /\ subscribe(Descriptor("s1", Wildcard, Dests, Wildcard, TRUE))
  \/ \E h \in Hashes, d \in Dests, a \in Accounts :
       delPending = {} /\ nobs < MaxObsStore /\ emitOutbound("s1", h, d, Signer(a))
  \/ \E h \in Hashes, d \in Dests :
       delPending = {} /\ nobs < MaxObsStore /\ emitInbound("s1", d, h)
  \/ delPending = {} /\ Enter
  \/ delPending = {} /\ EnterGetFails
  \/ delPending = {} /\ onOutboundMessage
  \/ delPending = {} /\ onInboundMessage
  \/ delPending = {} /\ PutFails
  \/ DelApply

SpecStore == Init /\ [][NextStore]_vars

\* the store settles every call, the event loop runs every continuation
SpecStoreFair ==
  /\ SpecStore
  /\ WF_vars(DelApply)
  /\ WF_vars(delPending = {} /\ (Enter \/ EnterGetFails))
  /\ WF_vars(delPending = {} /\ (onOutboundMessage \/ onInboundMessage \/ PutFails))

\* C35: an engine operation that is inside the critical section leaves it,
\* whether its read or its write of the store fails or not, and an operation
\* that waits for the mutex gets it.
C35_MutexAlwaysReleased ==
  /\ (holder # <<>>) ~> (holder = <<>>)
  /\ (queue # <<>>) ~> (holder # <<>>)

\* C35 witness: an operation whose put failed has left the critical section
\* and a later operation went through it.
C35_HandledAfterFailedPut ==
  /\ holder = <<>>
  /\ \E x, y \in handled :
       /\ x.threw /\ ~x.matched
       /\ ~y.threw
       /\ y.msg.oid > x.msg.oid

\* C36: no match key is in the outbound and in the inbound namespace at once.
C36_KeyInOneNamespace ==
  \A k \in DOMAIN outbound : ~Has(inbound, k)

\* the engine calls of SpecJoin
MaxObsJoin == 3

JoinHashes == {"h1", "h2"}

\* one subscription with two destinations and messages of two hashes, the
\* deletes applied at once
NextJoin ==
  \/ RegistryLoads(Origin)
  \/ /\ delPending = {}
     /\ Accepted(Descriptor("s1", Wildcard, AllDests, Wildcard, TRUE))
     /\ subscribe(Descriptor("s1", Wildcard, AllDests, Wildcard, TRUE))
  \/ \E h \in JoinHashes, d \in AllDests, a \in Accounts :
       delPending = {} /\ nobs < MaxObsJoin /\ emitOutbound("s1", h, d, Signer(a))
  \/ \E h \in JoinHashes, d \in AllDests :
       delPending = {} /\ nobs < MaxObsJoin /\ emitInbound("s1", d, h)
  \/ delPending = {} /\ Enter
  \/ delPending = {} /\ onOutboundMessage
  \/ delPending = {} /\ onInboundMessage
  \/ DelApply

SpecJoin == Init /\ [][NextJoin]_vars

\* the stored sent legs a received leg belongs to, and the stored received
\* legs a sent leg belongs to: same hash, destination equal to the chain
SentFor(inMsg) ==
  {outbound[k] : k \in {x \in DOMAIN outbound :
     /\ outbound[x].messageHash = inMsg.messageHash
     /\ outbound[x].recipient = inMsg.chainId}}

ReceivedFor(outMsg) ==
  {inbound[k] : k \in {x \in DOMAIN inbound :
     /\ inbound[x].messageHash = outMsg.messageHash
     /\ inbound[x].chainId = outMsg.recipient}}

\* C37: the operation that handles a received leg emits a notification
\* exactly when a sent leg with its hash and with its chain as destination is
\* stored, and that notification joins the two; otherwise the received leg is
\* stored and every stored sent leg, of the same hash with another
\* destination too, stays pending under its own key. The same holds for a
\* sent leg and the stored received legs.
C37_JoinOnHashAndDestination ==
  [][/\ onInboundMessage =>
          LET m == holder[1].msg
          IN  /\ NewlyEmitted # {} <=> SentFor(m) # {}
              /\ \A e \in NewlyEmitted : e.inMsg = m /\ e.outMsg \in SentFor(m)
              /\ NewlyEmitted = {} =>
                   /\ Has(inbound', InKey(m)) /\ inbound'[InKey(m)] = m
                   /\ \A k \in DOMAIN outbound :
                        Has(outbound', k) /\ outbound'[k] = outbound[k] /\ k # InKey(m)
     /\ onOutboundMessage =>
          LET m == holder[1].msg
          IN  /\ NewlyEmitted # {} <=> ReceivedFor(m) # {}
              /\ \A e \in NewlyEmitted : e.outMsg = m /\ e.inMsg \in ReceivedFor(m)
              /\ NewlyEmitted = {} =>
                   /\ Has(outbound', OutKey(m)) /\ outbound'[OutKey(m)] = m
                   /\ \A k \in DOMAIN inbound :
                        Has(inbound', k) /\ inbound'[k] = inbound[k] /\ k # OutKey(m)]_vars

\* C37 witness: a sent leg to d1 and a received leg of the same hash observed
\* on d2 are both pending, under two keys, and nothing was emitted.
C37_SameHashOtherChainPending ==
  /\ emitted = <<>>
  /\ holder = <<>> /\ queue = <<>>
  /\ \E ko \in DOMAIN outbound, ki \in DOMAIN inbound :
       /\ outbound[ko].messageHash = inbound[ki].messageHash
       /\ outbound[ko].recipient = "d1"
       /\ inbound[ki].chainId = "d2"
       /\ ko # ki

====
